---- MODULE Spec2Model ----
(***************************************************************************)
(* Model of martyrology/main.py: the text transformations (latex_escape,   *)
(* fix_quotes_for_latex, the response substitution and the row merger),    *)
(* the extractor parse_file, and the run of main with write_latex.         *)
(*                                                                         *)
(* A Python string is modelled as the sequence of its characters, each     *)
(* character a TLA+ string of length one (a few characters that have no    *)
(* TLA+ form are named: NBSP, VT, BQ).                                       *)
(***************************************************************************)
EXTENDS Integers, Sequences, FiniteSets, TLC

VARIABLES
    pc,          \* position of the run that is being modelled
    text,        \* the str argument of a text function
    ret,         \* the value a text function returned
    ret2,        \* the value of a second application to ret
    pairs,       \* the (L, R) pairs handed to the row merger / body emitter
    merged,      \* the list the row merger returned
    path,        \* parse_file: its path argument
    tree,        \* parse_file: the tables of the parsed document
    record,      \* parse_file: the returned record (<<>> is None)
    row_index,   \* parse_file: local row_index when it returns
    fs,          \* main: the .htm files on disk, path -> document
    paths,       \* main: the list of discovered paths
    pidx,        \* main: the position of the loop over paths
    docs,        \* main: the list of parsed documents
    outfile,     \* main: the chunks written to martyrology.tex (<<>>: never opened)
    stdout       \* main: the lines printed

vars == <<pc, text, ret, ret2, pairs, merged, path, tree, record, row_index,
          fs, paths, pidx, docs, outfile, stdout>>

textVars  == <<text, ret, ret2>>
pairVars  == <<pairs, merged>>
parseVars == <<path, tree, record, row_index>>
mainVars  == <<fs, paths, pidx, docs, outfile, stdout>>

----------------------------------------------------------------------------
(* Characters *)

NBSP == "NBSP"
VT   == "VT"
\* the backtick (U+0060), the straight double quote and the apostrophe
BQ == "BQ"
DQ == "\""
SQ == "'"

Lowercase == <<"a","b","c","d","e","f","g","h","i","j","k","l","m",
               "n","o","p","q","r","s","t","u","v","w","x","y","z",
               "á","é","í">>
Uppercase == <<"A","B","C","D","E","F","G","H","I","J","K","L","M",
               "N","O","P","Q","R","S","T","U","V","W","X","Y","Z",
               "Á","É","Í">>
Digits == {"0","1","2","3","4","5","6","7","8","9"}

Range(f) == {f[k] : k \in DOMAIN f}

\* str.isalpha on one character
IsAlpha(c) == c \in Range(Lowercase) \/ c \in Range(Uppercase)
\* str.isdigit on one character
IsDigitCh(c) == c \in Digits
\* the regular expression class \w
IsWordCh(c) == IsAlpha(c) \/ IsDigitCh(c) \/ c = "_"
\* the regular expression class \s, and what str.strip removes
IsSpace(c) == c \in {" ", "\t", "\n", "\r", "\f", VT, NBSP}
\* the class [ \t\f\v]
IsHSpace(c) == c \in {" ", "\t", "\f", VT}
\* the class [.,;:?!]
IsPunct(c) == c \in {".", ",", ";", ":", "?", "!"}

\* str.lower on one character
LowerCh(c) ==
    IF c \in Range(Uppercase)
    THEN Lowercase[CHOOSE k \in DOMAIN Uppercase : Uppercase[k] = c]
    ELSE c

\* str.lower
Lower(s) == [k \in DOMAIN s |-> LowerCh(s[k])]

----------------------------------------------------------------------------
(* Strings *)

\* s[i:] of Python, 1-based
From(s, i) == SubSeq(s, i, Len(s))

\* s.startswith(p, i-1)
StartsWithAt(s, i, p) ==
    /\ i + Len(p) - 1 <= Len(s)
    /\ \A k \in 1..Len(p) : s[i + k - 1] = p[k]

\* s.endswith(p)
EndsWith(s, p) ==
    /\ Len(p) <= Len(s)
    /\ StartsWithAt(s, Len(s) - Len(p) + 1, p)

\* p in s
Contains(s, p) == \E i \in 1..(Len(s) + 1) : StartsWithAt(s, i, p)

\* first index >= i of a character that is not whitespace (Len(s)+1 if none)
RECURSIVE SkipSpace(_, _)
SkipSpace(s, i) ==
    IF i <= Len(s) /\ IsSpace(s[i]) THEN SkipSpace(s, i + 1) ELSE i

\* first index >= i of a character outside [ \t\f\v]
RECURSIVE SkipHSpace(_, _)
SkipHSpace(s, i) ==
    IF i <= Len(s) /\ IsHSpace(s[i]) THEN SkipHSpace(s, i + 1) ELSE i

\* last index <= i of a character that is not whitespace (0 if none)
RECURSIVE BackSpace(_, _)
BackSpace(s, i) ==
    IF i >= 1 /\ IsSpace(s[i]) THEN BackSpace(s, i - 1) ELSE i

\* str.strip()
Strip(s) == SubSeq(s, SkipSpace(s, 1), BackSpace(s, Len(s)))

\* ''.join(parts), by halves
RECURSIVE JoinRange(_, _, _)
JoinRange(parts, lo, hi) ==
    IF lo > hi THEN <<>>
    ELSE IF lo = hi THEN parts[lo]
    ELSE LET mid == (lo + hi) \div 2
         IN  JoinRange(parts, lo, mid) \o JoinRange(parts, mid + 1, hi)

Join(parts) == JoinRange(parts, 1, Len(parts))

\* all sequences over S of length at most n
SeqsUpTo(S, n) == UNION {[1..k -> S] : k \in 0..n}

----------------------------------------------------------------------------
(* latex_escape *)

\* html.unescape, for the character references "&amp;" and "&nbsp;" and
\* their legacy forms without the semicolon: the length of the reference
\* that starts at s[i] (0 if none starts there)
EntityLenAt(s, i) ==
    IF i < 1 THEN 0
    ELSE IF StartsWithAt(s, i, <<"&","a","m","p",";">>) THEN 5
    ELSE IF StartsWithAt(s, i, <<"&","a","m","p">>) THEN 4
    ELSE IF StartsWithAt(s, i, <<"&","n","b","s","p",";">>) THEN 6
    ELSE IF StartsWithAt(s, i, <<"&","n","b","s","p">>) THEN 5
    ELSE 0

\* the character a reference stands for
EntityChar(s, i) ==
    IF StartsWithAt(s, i, <<"&","a","m","p">>) THEN "&" ELSE NBSP

\* a reference replaced by its character, every other character kept
HtmlUnescape(s) ==
    Join([k \in DOMAIN s |->
            IF EntityLenAt(s, k) > 0 THEN <<EntityChar(s, k)>>
            ELSE IF \E i \in (k - 5)..(k - 1) : EntityLenAt(s, i) > k - i
                 THEN <<>>
                 ELSE <<s[k]>>])

\* .replace("\xa0", " ")
ReplaceNbsp(s) == [k \in DOMAIN s |-> IF s[k] = NBSP THEN " " ELSE s[k]]

\* .rstrip("\n")
RECURSIVE RStripNewlines(_)
RStripNewlines(s) ==
    IF s /= <<>> /\ s[Len(s)] = "\n"
    THEN RStripNewlines(SubSeq(s, 1, Len(s) - 1))
    ELSE s

\* replacements.get(ch, ch)
EscapeOf(ch) ==
    CASE ch = "\\" -> <<"\\","t","e","x","t","b","a","c","k","s","l","a","s","h","{","}">>
      [] ch = "{"  -> <<"\\","{">>
      [] ch = "}"  -> <<"\\","}">>
      [] ch = "#"  -> <<"\\","#">>
      [] ch = "$"  -> <<"\\","$">>
      [] ch = "%"  -> <<"\\","%">>
      [] ch = "&"  -> <<"\\","&">>
      [] ch = "_"  -> <<"\\","_">>
      [] ch = "^"  -> <<"\\","^","{","}">>
      [] ch = "~"  -> <<"\\","~","{","}">>
      [] OTHER     -> <<ch>>

\* the loop over s that appends replacements.get(ch, ch), joined
EscapeChars(s) == Join([k \in DOMAIN s |-> EscapeOf(s[k])])

\* re.sub(r'[ \t\f\v]+', ' ', txt): a run becomes one space
CollapseHSpace(s) ==
    Join([k \in DOMAIN s |->
            IF ~IsHSpace(s[k]) THEN <<s[k]>>
            ELSE IF k > 1 /\ IsHSpace(s[k - 1]) THEN <<>>
                 ELSE <<" ">>])

\* re.sub(r'\s([.,;:?!])', r'\1', txt): the + of \s+ lost, one whitespace
\* character in front of a punctuation mark is dropped
TidyPunctOne(s) ==
    Join([k \in DOMAIN s |->
            IF IsSpace(s[k]) /\ k + 1 <= Len(s) /\ IsPunct(s[k + 1])
            THEN <<>>
            ELSE <<s[k]>>])

\* re.sub(r'\s+([.,;:?!])', r'\1', txt): a whitespace run is dropped when
\* a punctuation mark follows it, and kept whole otherwise
TidyPunct(s) ==
    Join([k \in DOMAIN s |->
            IF IsSpace(s[k])
            THEN LET j == SkipSpace(s, k)
                 IN  IF j <= Len(s) /\ IsPunct(s[j]) THEN <<>> ELSE <<s[k]>>
            ELSE <<s[k]>>])

latex_escape(s) ==
    Strip(TidyPunct(CollapseHSpace(EscapeChars(
        RStripNewlines(ReplaceNbsp(HtmlUnescape(s)))))))

----------------------------------------------------------------------------
(* fix_quotes_for_latex *)

\* the first loop: straight double quotes, toggling dbl_open
RECURSIVE DoubleQuotesFrom(_, _, _)
DoubleQuotesFrom(s, i, dbl_open) ==
    IF i > Len(s) THEN <<>>
    ELSE IF s[i] = DQ
         THEN (IF dbl_open THEN <<BQ, BQ>> ELSE <<SQ, SQ>>)
              \o DoubleQuotesFrom(s, i + 1, ~dbl_open)
         ELSE <<s[i]>> \o DoubleQuotesFrom(s, i + 1, dbl_open)

\* the second loop, over the string the first loop built
RECURSIVE SingleQuotesFrom(_, _, _)
SingleQuotesFrom(s, i, sgl_open) ==
    IF i > Len(s) THEN <<>>
    ELSE IF s[i] = SQ
         THEN IF i > 1 /\ IsAlpha(s[i - 1])
              THEN <<SQ>> \o SingleQuotesFrom(s, i + 1, sgl_open)
              ELSE (IF sgl_open THEN <<BQ>> ELSE <<SQ>>)
                   \o SingleQuotesFrom(s, i + 1, ~sgl_open)
         ELSE <<s[i]>> \o SingleQuotesFrom(s, i + 1, sgl_open)

fix_quotes_for_latex(s) ==
    IF s = <<>> THEN s
    ELSE SingleQuotesFrom(DoubleQuotesFrom(s, 1, TRUE), 1, TRUE)

----------------------------------------------------------------------------
(* The response token and the row merger *)

\* the least element of a non-empty set of integers
Min(S) == CHOOSE m \in S : \A n \in S : m <= n

\* r'\textcolor{gregoriocolor}{\Rbar}', the "already replaced" alternative
\* of the detector's pattern
ReplacedToken ==
    <<"\\","t","e","x","t","c","o","l","o","r","{","g","r","e","g","o","r",
      "i","o","c","o","l","o","r","}","{","\\","R","b","a","r","}">>

\* [Rr]\s*\. matched at s[i]
RawTokenAt(s, i) ==
    /\ i <= Len(s)
    /\ s[i] \in {"R", "r"}
    /\ LET j == SkipSpace(s, i + 1)
       IN  j <= Len(s) /\ s[j] = "."

_starts_with_response_token(s) ==
    /\ s # <<>>
    /\ LET i == SkipSpace(s, 1)
       IN  RawTokenAt(s, i) \/ StartsWithAt(s, i, ReplacedToken)

\* the loop body with the per-side tests lost: a matching row is appended
\* to the previous pair on both sides
MergeOneBoth(acc, L, R) ==
    IF acc # <<>>
       /\ (_starts_with_response_token(L) \/ _starts_with_response_token(R))
    THEN LET n    == Len(acc)
             prev == acc[n]
         IN  [acc EXCEPT ![n] = <<Strip(prev[1] \o <<" ">> \o L),
                                  Strip(prev[2] \o <<" ">> \o R)>>]
    ELSE Append(acc, <<L, R>>)

\* the body of the loop of merge_response_rows for the pair <<L, R>>, acc
\* being the list merged
MergeOne(acc, L, R) ==
    IF acc # <<>>
       /\ (_starts_with_response_token(L) \/ _starts_with_response_token(R))
    THEN LET n     == Len(acc)
             prev  == acc[n]
             afterL == IF _starts_with_response_token(L)
                       THEN <<Strip(prev[1] \o <<" ">> \o L), prev[2]>>
                       ELSE prev
             afterR == IF _starts_with_response_token(R)
                       THEN <<afterL[1], Strip(afterL[2] \o <<" ">> \o R)>>
                       ELSE afterL
         IN  [acc EXCEPT ![n] = afterR]
    ELSE Append(acc, <<L, R>>)

RECURSIVE MergeFrom(_, _, _)
MergeFrom(ps, i, acc) ==
    IF i > Len(ps) THEN acc
    ELSE MergeFrom(ps, i + 1, MergeOne(acc, ps[i][1], ps[i][2]))

merge_response_rows(ps) == MergeFrom(ps, 1, <<>>)

----------------------------------------------------------------------------
(* replace_response_symbols_latin, replace_response_symbols_english *)

\* base: r'\textcolor{gregoriocolor}{\Rbar.}~'
ResponseBase ==
    <<"\\","t","e","x","t","c","o","l","o","r","{","g","r","e","g","o","r",
      "i","o","c","o","l","o","r","}","{","\\","R","b","a","r",".","}","~">>

\* r"Deo gr\'atias."
FreshLatin == <<"D","e","o"," ","g","r","\\","'","a","t","i","a","s",".">>

\* "Thanks be to God."
FreshEnglish ==
    <<"T","h","a","n","k","s"," ","b","e"," ","t","o"," ","G","o","d",".">>

\* \b in front of s[i], s[i] being a word character
BoundaryBefore(s, i) == i = 1 \/ ~IsWordCh(s[i - 1])

\* the index after \b[Rr]\s*\.\s* matched at s[i], 0 if it does not match
HeadEnd(s, i) ==
    IF BoundaryBefore(s, i) /\ RawTokenAt(s, i)
    THEN SkipSpace(s, SkipSpace(s, i + 1) + 1)
    ELSE 0

\* the index after D[eé]o\s+gr[aá]ti[aá]s\. matched at s[k], 0 if no match
LatinPhraseEnd(s, k) ==
    IF /\ StartsWithAt(s, k, <<"D">>)
       /\ k + 3 <= Len(s)
       /\ s[k + 1] \in {"e", "é"}
       /\ s[k + 2] = "o"
       /\ IsSpace(s[k + 3])
    THEN LET g == SkipSpace(s, k + 3)
         IN  IF /\ StartsWithAt(s, g, <<"g", "r">>)
                /\ g + 7 <= Len(s)
                /\ s[g + 2] \in {"a", "á"}
                /\ s[g + 3] = "t"
                /\ s[g + 4] = "i"
                /\ s[g + 5] \in {"a", "á"}
                /\ s[g + 6] = "s"
                /\ s[g + 7] = "."
             THEN g + 8
             ELSE 0
    ELSE 0

\* the index after Thanks\s+be\s+to\s+God\. matched at s[k], 0 if no match
EnglishPhraseEnd(s, k) ==
    IF StartsWithAt(s, k, <<"T","h","a","n","k","s">>)
       /\ k + 6 <= Len(s) /\ IsSpace(s[k + 6])
    THEN LET b == SkipSpace(s, k + 6)
         IN  IF StartsWithAt(s, b, <<"b","e">>)
                /\ b + 2 <= Len(s) /\ IsSpace(s[b + 2])
             THEN LET t == SkipSpace(s, b + 2)
                  IN  IF StartsWithAt(s, t, <<"t","o">>)
                         /\ t + 2 <= Len(s) /\ IsSpace(s[t + 2])
                      THEN LET g == SkipSpace(s, t + 2)
                           IN  IF StartsWithAt(s, g, <<"G","o","d",".">>)
                               THEN g + 4
                               ELSE 0
                      ELSE 0
             ELSE 0
    ELSE 0

\* group 1 of the pattern of language lang at s[k]: its end, 0 if it did
\* not take part in the match
PhraseEnd(lang, s, k) ==
    IF lang = "latin" THEN LatinPhraseEnd(s, k) ELSE EnglishPhraseEnd(s, k)

Fresh(lang) == IF lang = "latin" THEN FreshLatin ELSE FreshEnglish

\* _sub(m) that appends the canonical phrase whether or not group 1 matched
ReplacementAlwaysFresh(lang, s, i) ==
    LET k == HeadEnd(s, i)
        e == PhraseEnd(lang, s, k)
    IN  ResponseBase
        \o (IF e # 0 THEN SubSeq(s, k, e - 1) ELSE <<>>) \o Fresh(lang)

\* _sub(m) for the match that starts at s[i]
Replacement(lang, s, i) ==
    LET k == HeadEnd(s, i)
        e == PhraseEnd(lang, s, k)
    IN  ResponseBase \o (IF e # 0 THEN SubSeq(s, k, e - 1) ELSE Fresh(lang))

\* the end of the match that starts at s[i]
MatchEnd(lang, s, i) ==
    LET k == HeadEnd(s, i)
        e == PhraseEnd(lang, s, k)
    IN  IF e # 0 THEN e ELSE k

\* pattern.sub(_sub, s) from s[i] on: the leftmost match at or after s[i] is
\* replaced and the scan goes on behind it
RECURSIVE SubFrom(_, _, _)
SubFrom(lang, s, i) ==
    LET starts == {m \in i..Len(s) : HeadEnd(s, m) # 0}
    IN  IF starts = {} THEN From(s, i)
        ELSE LET m == Min(starts)
             IN  SubSeq(s, i, m - 1) \o Replacement(lang, s, m)
                 \o SubFrom(lang, s, MatchEnd(lang, s, m))

replace_response_symbols_latin(s) ==
    IF s = <<>> THEN s ELSE SubFrom("latin", s, 1)

replace_response_symbols_english(s) ==
    IF s = <<>> THEN s ELSE SubFrom("english", s, 1)

----------------------------------------------------------------------------
(* dropcap_first_word, emit_body_paracol_with_dropcaps *)

\* the class [A-Za-z...] of the first letter
IsInitialCh(c) == IsAlpha(c)

\* first index >= i of a whitespace character
RECURSIVE SkipNonSpace(_, _)
SkipNonSpace(s, i) ==
    IF i <= Len(s) /\ ~IsSpace(s[i]) THEN SkipNonSpace(s, i + 1) ELSE i

dropcap_first_word(s) ==
    IF s = <<>> THEN <<"~">>
    ELSE LET i == SkipSpace(s, 1)
         IN  IF ~(i <= Len(s) /\ IsInitialCh(s[i])) THEN s
             ELSE LET j == SkipNonSpace(s, i + 1)
                      remainder == From(s, SkipSpace(s, j))
                  IN  <<"\\","l","e","t","t","r","i","n","e","[","l","i",
                        "n","e","s","=","2","]","{">>
                      \o <<s[i]>> \o <<"}", "{">> \o SubSeq(s, i + 1, j - 1)
                      \o <<"}">>
                      \o (IF remainder # <<>> THEN <<" ">> \o remainder
                          ELSE <<>>)

BeginParacol ==
    <<"\\","b","e","g","i","n","{","p","a","r","a","c","o","l","}","{","2","}">>
SelectLatin ==
    <<"\\","s","e","l","e","c","t","l","a","n","g","u","a","g","e","{","l",
      "a","t","i","n","}">>
SwitchColumn == <<"\\","s","w","i","t","c","h","c","o","l","u","m","n">>
SelectEnglish ==
    <<"\\","s","e","l","e","c","t","l","a","n","g","u","a","g","e","{","e",
      "n","g","l","i","s","h","}">>
SwitchColumnStar ==
    <<"\\","s","w","i","t","c","h","c","o","l","u","m","n","*">>
EndParacol == <<"\\","e","n","d","{","p","a","r","a","c","o","l","}">>

\* s or "~"
OrTilde(s) == IF s = <<>> THEN <<"~">> ELSE s

\* norm of emit_body_paracol_with_dropcaps: the response replacement of
\* every pair, then the row merger
BodyNorm(ps) ==
    merge_response_rows(
        [k \in DOMAIN ps |->
            <<replace_response_symbols_latin(ps[k][1]),
              replace_response_symbols_english(ps[k][2])>>])

\* the lines of the k-th pair with the drop cap on every pair, first_pair
\* never reset
BodyPairLinesEveryPair(norm, k) ==
    LET Lp == norm[k][1]
        Rp == norm[k][2]
        left  == IF Lp # <<>> THEN dropcap_first_word(Lp) ELSE <<"~">>
        right == IF Rp # <<>> THEN dropcap_first_word(Rp) ELSE <<"~">>
    IN  <<left, SwitchColumn, SelectEnglish, right, SwitchColumnStar,
          SelectLatin>>

\* the lines out.append-ed for the k-th pair of norm
BodyPairLines(norm, k) ==
    LET Lp == norm[k][1]
        Rp == norm[k][2]
        left  == IF k = 1
                 THEN (IF Lp # <<>> THEN dropcap_first_word(Lp) ELSE <<"~">>)
                 ELSE OrTilde(Lp)
        right == IF k = 1
                 THEN (IF Rp # <<>> THEN dropcap_first_word(Rp) ELSE <<"~">>)
                 ELSE OrTilde(Rp)
    IN  <<left, SwitchColumn, SelectEnglish, right, SwitchColumnStar,
          SelectLatin>>

\* the list out of emit_body_paracol_with_dropcaps (joined with "\n" by
\* the code)
BodyLines(ps) ==
    LET norm == BodyNorm(ps)
    IN  <<BeginParacol, SelectLatin>>
        \o Join([k \in DOMAIN norm |-> BodyPairLines(norm, k)])
        \o <<EndParacol>>

----------------------------------------------------------------------------
(* The parsed document.  A document is [title, tables]: title holds the    *)
(* text of the <title> element (no element: <<>>), tables the top-level    *)
(* tables in document order.  A table is the sequence of its direct child  *)
(* rows, a row the sequence of its direct child cells.  A cell is a record *)
(* of its own text, whether it holds an <img>, the tables nested in it     *)
(* (each a sequence of rows of cell texts), and whether its text stands in *)
(* a <p>.                                                                  *)

Cell(t, i, tbs, p) == [txt |-> t, img |-> i, tables |-> tbs, para |-> p]
Td(t) == Cell(t, FALSE, <<>>, FALSE)

\* clean_text of a nested table
GridText(tb) == Join([r \in DOMAIN tb |-> Join(tb[r])])

\* clean_text(td)
CellText(td) ==
    td.txt \o Join([k \in DOMAIN td.tables |-> GridText(td.tables[k])])

\* clean_text(tr)
RowText(tr) == Join([k \in DOMAIN tr |-> CellText(tr[k])])

\* tr.find_all('table')
InnerTables(tr) == Join([k \in DOMAIN tr |-> tr[k].tables])

\* len(t.find_all('tr')): the rows of t and of the tables nested in it
CountRows(t) ==
    Len(t) + Len(Join(Join([r \in DOMAIN t |-> InnerTables(t[r])])))

\* the loop that chooses the largest table: the index of main_table after
\* the tables from the i-th on, 0 standing for None.  soup.find_all('table')
\* also returns the nested tables; a nested table has fewer rows than the
\* table around it, which comes first, so it is never chosen.
RECURSIVE LargestFrom(_, _, _, _)
LargestFrom(tables, i, main, max_rows) ==
    IF i > Len(tables) THEN main
    ELSE IF CountRows(tables[i]) > max_rows
         THEN LargestFrom(tables, i + 1, i, CountRows(tables[i]))
         ELSE LargestFrom(tables, i + 1, main, max_rows)

MainTableIndex(doc) == LargestFrom(doc.tables, 1, 0, -1)

MONTHS ==
    { <<"J","a","n","u","a","r","y">>,
      <<"F","e","b","r","u","a","r","y">>,
      <<"M","a","r","c","h">>,
      <<"A","p","r","i","l">>,
      <<"M","a","y">>,
      <<"J","u","n","e">>,
      <<"J","u","l","y">>,
      <<"A","u","g","u","s","t">>,
      <<"S","e","p","t","e","m","b","e","r">>,
      <<"O","c","t","o","b","e","r">>,
      <<"N","o","v","e","m","b","e","r">>,
      <<"D","e","c","e","m","b","e","r">> }

\* where the parts of text.split() start
WordStarts(s) ==
    {i \in DOMAIN s : ~IsSpace(s[i]) /\ (i = 1 \/ IsSpace(s[i - 1]))}

looks_like_month_heading(s) ==
    /\ s # <<>>
    /\ Cardinality(WordStarts(s)) >= 2
    /\ LET i == Min(WordStarts(s))
       IN  SubSeq(s, i, SkipNonSpace(s, i) - 1) \in MONTHS

\* clean_text of the <p> elements of a table, in document order
ParaTexts(t) ==
    Join(Join([r \in DOMAIN t |->
            [k \in DOMAIN t[r] |->
                IF t[r][k].para THEN <<t[r][k].txt>> ELSE <<>>]]))

\* the month headings among them
MonthHeadings(t) ==
    SelectSeq(ParaTexts(t), looks_like_month_heading)

\* date_heading
DateHeading(doc, t) ==
    LET found == IF MonthHeadings(t) # <<>>
                 THEN latex_escape(MonthHeadings(t)[1])
                 ELSE <<>>
    IN  IF found # <<>> THEN found
        ELSE IF doc.title # <<>> THEN latex_escape(doc.title[1])
        ELSE <<"U","n","t","i","t","l","e","d">>

\* fix_quotes_for_latex(latex_escape(clean_text(td)))
NormCell(td) == fix_quotes_for_latex(latex_escape(CellText(td)))

HasMarker(left_txt, right_txt) ==
    \/ Contains(left_txt, <<"L","u","n","a">>)
    \/ Contains(left_txt, <<"K","a","l","é","n","d","i","s">>)
    \/ Contains(right_txt, <<"J","a","n","u","a","r","y">>)
    \/ Contains(right_txt,
                <<"D","a","y"," ","o","f"," ","t","h","e"," ","M","o","o","n">>)

\* the test of the preface loop without "left_txt and right_txt"
IsPrefaceRowAnyCell(tr) ==
    /\ Len(tr) = 2
    /\ HasMarker(NormCell(tr[1]), NormCell(tr[2]))

\* the test of the preface loop on the row tr
IsPrefaceRow(tr) ==
    /\ Len(tr) = 2
    /\ NormCell(tr[1]) # <<>>
    /\ NormCell(tr[2]) # <<>>
    /\ HasMarker(NormCell(tr[1]), NormCell(tr[2]))

\* row_index after the preface loop: the number of rows up to and with the
\* first preface row, 0 if there is none
PrefaceRowIndex(rows) ==
    LET found == {i \in DOMAIN rows : IsPrefaceRow(rows[i])}
    IN  IF found = {} THEN 0 ELSE Min(found)

\* data of parse_letter_tables for the nested table tb
GridData(tb) ==
    SelectSeq([r \in DOMAIN tb |->
                  [c \in DOMAIN tb[r] |-> latex_escape(tb[r][c])]],
              LAMBDA row : \E c \in DOMAIN row : row[c] # <<>>)

\* parse_letter_tables looking at the row in front of row_index, the
\* preface row itself, instead of the next one
TakesLetterRowOffByOne(rows, ri) ==
    ri >= 1 /\ ri <= Len(rows) /\ InnerTables(rows[ri]) # <<>>

\* whether parse_letter_tables takes the row behind row_index as the row of
\* the letter tables
TakesLetterRow(rows, ri) ==
    ri + 1 <= Len(rows) /\ InnerTables(rows[ri + 1]) # <<>>

\* tables of parse_letter_tables
LetterTables(rows, ri) ==
    IF TakesLetterRow(rows, ri)
    THEN LET inner == InnerTables(rows[ri + 1])
         IN  SelectSeq([k \in DOMAIN inner |-> GridData(inner[k])],
                       LAMBDA data : data # <<>>)
    ELSE <<>>

\* the number of rows in front of the first row the body loop sees
BodyStart(rows, ri) == IF TakesLetterRow(rows, ri) THEN ri + 1 ELSE ri

is_spacer_row(tr) ==
    \/ tr = <<>>
    \/ \E k \in DOMAIN tr : tr[k].img
    \/ latex_escape(RowText(tr)) = <<>>

\* body_pairs before the conclusion filter
BodyPairsOf(rows, start) ==
    Join([j \in DOMAIN rows |->
            IF j > start /\ ~is_spacer_row(rows[j]) /\ Len(rows[j]) = 2
               /\ (NormCell(rows[j][1]) # <<>> \/ NormCell(rows[j][2]) # <<>>)
            THEN << <<NormCell(rows[j][1]), NormCell(rows[j][2])>> >>
            ELSE <<>>])

\* CONCLUSION_LAT_RE.search(L): Et\s+al[ií]bi, ignoring case
ConclusionLatAt(s, i) ==
    /\ StartsWithAt(Lower(s), i, <<"e", "t">>)
    /\ i + 2 <= Len(s) /\ IsSpace(s[i + 2])
    /\ LET a == SkipSpace(s, i + 2)
       IN  /\ StartsWithAt(Lower(s), a, <<"a", "l">>)
           /\ a + 4 <= Len(s)
           /\ LowerCh(s[a + 2]) \in {"i", "í"}
           /\ LowerCh(s[a + 3]) = "b"
           /\ LowerCh(s[a + 4]) = "i"

ConclusionLat(s) == \E i \in DOMAIN s : ConclusionLatAt(s, i)

\* CONCLUSION_ENG_RE.search(R): ^\s*And elsewhere, ignoring case
ConclusionEng(s) ==
    StartsWithAt(Lower(s), SkipSpace(s, 1),
                 <<"a","n","d"," ","e","l","s","e","w","h","e","r","e">>)

is_conclusion_pair(L, R) ==
    \/ /\ ConclusionLat(L)
       /\ \/ Contains(L, <<"R", ".">>)
          \/ Contains(L, <<"D","e","o"," ","g","r">>)
    \/ /\ ConclusionEng(R)
       /\ \/ Contains(R, <<"R", ".">>)
          \/ Contains(R, <<"T","h","a","n","k","s"," ","b","e"," ","t","o",
                           " ","G","o","d">>)

is_jan_first(p) ==
    LET pl == Lower(p)
        in_jan == \E i \in DOMAIN pl :
                      /\ pl[i] \in {"/", "\\"}
                      /\ StartsWithAt(pl, i + 1, <<"m","a","r","t","0","1">>)
                      /\ i + 7 <= Len(pl)
                      /\ pl[i + 7] \in {"/", "\\"}
        is_0101 ==
            \/ EndsWith(pl, <<"m","a","r","t","0","1","0","1",".","h","t","m">>)
            \/ EndsWith(pl,
                   <<"m","a","r","t","0","1","0","1",".","h","t","m","l">>)
    IN  in_jan /\ is_0101

\* the list comprehension that removes the conclusion pairs
FilterConclusion(p, bp) ==
    IF ~is_jan_first(p)
    THEN SelectSeq(bp, LAMBDA pair : ~is_conclusion_pair(pair[1], pair[2]))
    ELSE bp

\* the direct child rows of main_table
MainRows(doc) == doc.tables[MainTableIndex(doc)]

\* parse_file(p) for the file whose parsed tree is doc: <<>> for None,
\* else the one-element sequence of the returned dict
parse_file(p, doc) ==
    IF MainTableIndex(doc) = 0 THEN <<>>
    ELSE LET rows == MainRows(doc)
             ri   == PrefaceRowIndex(rows)
         IN  << [ path          |-> p,
                  date          |-> DateHeading(doc, rows),
                  preface_lat   |-> IF ri = 0 THEN <<>>
                                    ELSE NormCell(rows[ri][1]),
                  preface_eng   |-> IF ri = 0 THEN <<>>
                                    ELSE NormCell(rows[ri][2]),
                  letter_tables |-> LetterTables(rows, ri),
                  pairs         |-> FilterConclusion(p,
                                        BodyPairsOf(rows, BodyStart(rows, ri)))
                ] >>

----------------------------------------------------------------------------
(* The paths main discovers *)

DigitSeq == <<"0","1","2","3","4","5","6","7","8","9">>
TwoDigits(n) == <<DigitSeq[(n \div 10) + 1], DigitSeq[(n % 10) + 1]>>

\* f"martyrology/mart{m:02d}"
FolderOf(m) ==
    <<"m","a","r","t","y","r","o","l","o","g","y","/","m","a","r","t">>
    \o TwoDigits(m)

\* os.path.join(folder, name)
PathOf(m, name) == FolderOf(m) \o <<"/">> \o name

\* the name of the file of day d of month m, as in mart01/mart0101.htm
DayFile(m, d) ==
    <<"m","a","r","t">> \o TwoDigits(m) \o TwoDigits(d) \o <<".","h","t","m">>

----------------------------------------------------------------------------
(* emit_preface_two_col_centered and emit_letter_tables_compact_no_border *)

Max(S) == CHOOSE m \in S : \A n \in S : n <= m

\* sep.join(parts)
JoinWith(sep, parts) ==
    Join([k \in 1..(2 * Len(parts) - 1) |->
             IF k % 2 = 1 THEN parts[(k + 1) \div 2] ELSE sep])

\* "\n".join(out)
JoinLines(out) == JoinWith(<<"\n">>, out)

\* "%d" % n
RECURSIVE Decimal(_)
Decimal(n) ==
    IF n < 10 THEN <<DigitSeq[n + 1]>>
    ELSE Decimal(n \div 10) \o <<DigitSeq[(n % 10) + 1]>>

\* the end of the match of \n\s*\n+ that starts at k: the last line feed of
\* the whitespace behind k, 0 if there is none
ParBreakEnd(s, k) ==
    LET run == {j \in (k + 1)..(SkipSpace(s, k + 1) - 1) : s[j] = "\n"}
    IN  IF run = {} THEN 0 ELSE Max(run)

RECURSIVE InlineParsFrom(_, _)
InlineParsFrom(s, i) ==
    LET starts == {k \in i..Len(s) : s[k] = "\n" /\ ParBreakEnd(s, k) # 0}
    IN  IF starts = {} THEN From(s, i)
        ELSE SubSeq(s, i, Min(starts) - 1) \o <<" ">>
             \o InlineParsFrom(s, ParBreakEnd(s, Min(starts)) + 1)

_normalize_inline_pars(s) == InlineParsFrom(s, 1)

NeedSpace ==
    <<"\\","n","e","e","d","s","p","a","c","e","{","1","0","\\","b","a","s",
      "e","l","i","n","e","s","k","i","p","}">>
BeginCenter ==
    <<"\\","b","e","g","i","n","{","c","e","n","t","e","r","}","{","\\","c",
      "o","l","o","r","{","g","r","e","g","o","r","i","o","c","o","l","o",
      "r","}"," ">>
EndCenter ==
    <<"}","\\","e","n","d","{","c","e","n","t","e","r","}">>

\* the string emit_preface_two_col_centered returns
emit_preface_two_col_centered(preface_lat, preface_eng) ==
    LET L == _normalize_inline_pars(OrTilde(preface_lat))
        R == _normalize_inline_pars(OrTilde(preface_eng))
    IN  JoinLines(<<NeedSpace, BeginParacol, SelectLatin,
                    BeginCenter \o L \o EndCenter,
                    SwitchColumn, SelectEnglish,
                    BeginCenter \o R \o EndCenter,
                    EndParacol>>)

\* str.isdigit and str.isalpha
IsDigitStr(s) == s # <<>> /\ \A k \in DOMAIN s : IsDigitCh(s[k])
IsAlphaStr(s) == s # <<>> /\ \A k \in DOMAIN s : IsAlpha(s[k])

FirstF ==
    <<"_","_","F","I","R","S","T","_","F","_","_">>
TextColorOpen ==
    <<"\\","t","e","x","t","c","o","l","o","r","{","g","r","e","g","o","r",
      "i","o","c","o","l","o","r","}","{">>

\* _color_cell_for_letters that colors every letter, the flag ignored
ColorCellNoBlackF(cell, treat_first_F_black) ==
    LET s == Strip(cell)
    IN  IF s = <<>> THEN s
        ELSE IF IsDigitStr(s) THEN s
        ELSE IF IsAlphaStr(s) THEN TextColorOpen \o s \o <<"}">>
        ELSE s

_color_cell_for_letters(cell, treat_first_F_black) ==
    LET s == Strip(cell)
    IN  IF s = <<>> THEN s
        ELSE IF IsDigitStr(s) THEN s
        ELSE IF IsAlphaStr(s)
             THEN IF treat_first_F_black /\ s = <<"F">> THEN FirstF
                  ELSE TextColorOpen \o s \o <<"}">>
        ELSE s

\* r + [""] * (ncols - len(r))
PadRow(r, ncols) == r \o [k \in 1..(ncols - Len(r)) |-> <<>>]

\* max(len(r) for r in tb)
NCols(tb) == Max({Len(tb[r]) : r \in DOMAIN tb})

\* first_F_done when the cell c of the row r is reached: an earlier cell of
\* the table gave "__FIRST_F__"
FirstFDone(tb, r, c) ==
    \E r2 \in DOMAIN tb : \E c2 \in 1..NCols(tb) :
        /\ r2 < r \/ (r2 = r /\ c2 < c)
        /\ _color_cell_for_letters(PadRow(tb[r2], NCols(tb))[c2], TRUE)
              = FirstF

\* what colored.append receives for the cell c of the row r of the table
\* number t (from 1)
ColoredCell(tb, t, r, c) ==
    LET v == _color_cell_for_letters(PadRow(tb[r], NCols(tb))[c],
                                     t = 2 /\ ~FirstFDone(tb, r, c))
    IN  IF v = FirstF THEN <<"F">> ELSE v

BeginTabularx ==
    <<"\\","n","o","i","n","d","e","n","t","\\","b","e","g","i","n","{","t",
      "a","b","u","l","a","r","x","}","{","\\","l","i","n","e","w","i","d",
      "t","h","}","{","*","{">>
ColumnType ==
    <<"}","{",">","{","\\","c","e","n","t","e","r","i","n","g","\\","a","r",
      "r","a","y","b","a","c","k","s","l","a","s","h","}","X","}","}">>
EndTabularx ==
    <<"\\","e","n","d","{","t","a","b","u","l","a","r","x","}">>
VSpace ==
    <<"\\","v","s","p","a","c","e","{","0",".","5","\\","b","a","s","e","l",
      "i","n","e","s","k","i","p","}">>

\* " {} \\\\".format(" & ".join(cr))
RowLine(cr) ==
    <<" ">> \o JoinWith(<<" ", "&", " ">>, cr) \o <<" ", "\\", "\\">>

\* the lines out.append-ed for the table number t (from 1)
TableLines(tables, t) ==
    LET tb == tables[t]
    IN  IF tb = <<>> THEN <<>>
        ELSE <<BeginTabularx \o Decimal(NCols(tb)) \o ColumnType>>
             \o [r \in DOMAIN tb |->
                    RowLine([c \in 1..NCols(tb) |-> ColoredCell(tb, t, r, c)])]
             \o <<EndTabularx>>
             \o (IF t # Len(tables) THEN <<VSpace>> ELSE <<>>)

emit_letter_tables_compact_no_border(tables) ==
    IF tables = <<>> THEN <<>>
    ELSE JoinLines(Join([t \in DOMAIN tables |-> TableLines(tables, t)]))

emit_body_paracol_with_dropcaps(ps) == JoinLines(BodyLines(ps))

----------------------------------------------------------------------------
(* write_latex *)

MONTHS_EN ==
    << <<"J","a","n","u","a","r","y">>,
       <<"F","e","b","r","u","a","r","y">>,
       <<"M","a","r","c","h">>,
       <<"A","p","r","i","l">>,
       <<"M","a","y">>,
       <<"J","u","n","e">>,
       <<"J","u","l","y">>,
       <<"A","u","g","u","s","t">>,
       <<"S","e","p","t","e","m","b","e","r">>,
       <<"O","c","t","o","b","e","r">>,
       <<"N","o","v","e","m","b","e","r">>,
       <<"D","e","c","e","m","b","e","r">> >>

MONTHS_LA ==
    << <<"I","a","n","u","a","r","i","u","s">>,
       <<"F","e","b","r","u","a","r","i","u","s">>,
       <<"M","a","r","t","i","u","s">>,
       <<"A","p","r","i","l","i","s">>,
       <<"M","a","i","u","s">>,
       <<"I","u","n","i","u","s">>,
       <<"I","u","l","i","u","s">>,
       <<"A","u","g","u","s","t","u","s">>,
       <<"S","e","p","t","e","m","b","e","r">>,
       <<"O","c","t","o","b","e","r">>,
       <<"N","o","v","e","m","b","e","r">>,
       <<"D","e","c","e","m","b","e","r">> >>

\* the index of the last "/" of s, 0 if there is none
LastSlash(s) ==
    IF \E k \in DOMAIN s : s[k] = "/"
    THEN Max({k \in DOMAIN s : s[k] = "/"})
    ELSE 0

\* s.rstrip("/")
RECURSIVE RStripSlash(_)
RStripSlash(s) ==
    IF s # <<>> /\ s[Len(s)] = "/" THEN RStripSlash(SubSeq(s, 1, Len(s) - 1))
    ELSE s

\* os.path.split(p)[0]
PathHead(p) ==
    LET head == SubSeq(p, 1, LastSlash(p))
    IN  IF head # <<>> /\ \E k \in DOMAIN head : head[k] # "/"
        THEN RStripSlash(head)
        ELSE head

\* os.path.basename(p)
Basename(p) == From(p, LastSlash(p) + 1)

\* int() of one digit
DigitValue(c) == (CHOOSE k \in DOMAIN DigitSeq : DigitSeq[k] = c) - 1

\* the literal part of the pattern martyrology/mart(\d\d)
MonthPattern ==
    <<"m","a","r","t","y","r","o","l","o","g","y","/","m","a","r","t">>

\* month_from_folder(path): the month index, 0 for None
month_from_folder(p) ==
    LET base == Basename(PathHead(p))
        n    == Len(MonthPattern)
    IN  IF /\ StartsWithAt(Lower(base), 1, MonthPattern)
           /\ Len(base) >= n + 2
           /\ IsDigitCh(base[n + 1]) /\ IsDigitCh(base[n + 2])
        THEN LET idx == 10 * DigitValue(base[n + 1]) + DigitValue(base[n + 2])
             IN  IF 1 <= idx /\ idx <= 12 THEN idx ELSE 0
        ELSE 0

\* latex_header(), the preamble, as one chunk
latex_header == <<"latex_header()">>

latex_footer ==
    <<"\n","\\","e","n","d","{","d","o","c","u","m","e","n","t","}","\n">>
ClearToRecto ==
    <<"\\","c","l","e","a","r","t","o","r","e","c","t","o","\n">>
GdefLatin ==
    <<"\\","g","d","e","f","\\","L","a","t","i","n","M","o","n","t","h",
      "{">>
GdefEnglish ==
    <<"\\","g","d","e","f","\\","E","n","g","l","i","s","h","M","o","n","t",
      "h","{">>
BlockMark ==
    <<"\n","%"," ","-","-","-","-"," ">>

\* the strings f.write receives for the month-boundary directive
MonthDirective(month_idx) ==
    << ClearToRecto,
       GdefLatin \o MONTHS_LA[month_idx] \o <<"}", "\n">>,
       GdefEnglish \o MONTHS_EN[month_idx] \o <<"}", "\n", "\n">> >>

\* "\n% ---- {}\n".format(doc["path"])
BlockHead(p) == BlockMark \o p \o <<"\n">>

\* the strings f.write receives for one document
DocChunks(doc) ==
    << BlockHead(doc.path),
       emit_preface_two_col_centered(doc.preface_lat, doc.preface_eng),
       <<"\n", "\n">>,
       emit_letter_tables_compact_no_border(doc.letter_tables),
       <<"\n", "\n">>,
       emit_body_paracol_with_dropcaps(doc.pairs),
       <<"\n", "\n">> >>

\* the loop over documents from the k-th on, current_month being 0 for None
RECURSIVE WriteDocs(_, _, _)
WriteDocs(documents, k, current_month) ==
    IF k > Len(documents) THEN <<>>
    ELSE LET month_idx == month_from_folder(documents[k].path)
             turn == month_idx # 0 /\ month_idx # current_month
         IN  (IF turn THEN MonthDirective(month_idx) ELSE <<>>)
             \o DocChunks(documents[k])
             \o WriteDocs(documents, k + 1,
                          IF turn THEN month_idx ELSE current_month)

\* the strings written to the output file, in order
write_latex(documents) ==
    <<latex_header>> \o WriteDocs(documents, 1, 0) \o <<latex_footer>>

----------------------------------------------------------------------------
(* main *)

\* range(1, 13)
MonthFolders == 1..12

\* the characters of the paths in the order of their code points
CodePoints ==
    <<".", "/", "0","1","2","3","4","5","6","7","8","9",
      "a","b","c","d","e","f","g","h","i","j","k","l","m",
      "n","o","p","q","r","s","t","u","v","w","x","y","z">>

Ord(c) == CHOOSE k \in DOMAIN CodePoints : CodePoints[k] = c

\* a < b for str
LexLess(a, b) ==
    \E k \in 1..(Len(a) + 1) :
        /\ k <= Len(b)
        /\ \A j \in 1..(k - 1) : a[j] = b[j]
        /\ k = Len(a) + 1 \/ Ord(a[k]) < Ord(b[k])

\* p.split(os.sep)[0]
FirstComponent(p) ==
    IF \E k \in DOMAIN p : p[k] = "/"
    THEN SubSeq(p, 1, Min({k \in DOMAIN p : p[k] = "/"}) - 1)
    ELSE p

\* the order of the keys (p.split(os.sep)[0], p)
KeyLess(a, b) ==
    \/ LexLess(FirstComponent(a), FirstComponent(b))
    \/ FirstComponent(a) = FirstComponent(b) /\ LexLess(a, b)

\* the list in the reverse of the order of the keys
RECURSIVE SortPathsReversed(_)
SortPathsReversed(S) ==
    IF S = {} THEN <<>>
    ELSE LET m == CHOOSE x \in S : \A y \in S \ {x} : KeyLess(y, x)
         IN  <<m>> \o SortPathsReversed(S \ {m})

\* paths.sort(key=...) of the paths S
RECURSIVE SortPaths(_)
SortPaths(S) ==
    IF S = {} THEN <<>>
    ELSE LET m == CHOOSE x \in S : \A y \in S \ {x} : KeyLess(x, y)
         IN  <<m>> \o SortPaths(S \ {m})

\* fnmatch of the name against "*.htm"
MatchesHtm(name) ==
    /\ EndsWith(name, <<".", "h", "t", "m">>)
    /\ name[1] # "."

\* glob.glob(os.path.join(folder, "*.htm")) for the folder of month m
Glob(m) ==
    {p \in DOMAIN fs :
        /\ PathHead(p) = FolderOf(m)
        /\ MatchesHtm(Basename(p))}

NoDocsMessage ==
    <<"N","o"," ","d","o","c","u","m","e","n","t","s"," ","p","a","r","s",
      "e","d","."," ","C","h","e","c","k"," ","m","a","r","t","0","1",".",
      ".","m","a","r","t","1","2"," ","f","o","l","d","e","r","s",".">>

\* f"Wrote martyrology.tex with {len(docs)} days."
WroteMessage(n) ==
    <<"W","r","o","t","e"," ","m","a","r","t","y","r","o","l","o","g","y",
      ".","t","e","x"," ","w","i","t","h"," ">>
    \o Decimal(n) \o
    <<" ","d","a","y","s",".">>

----------------------------------------------------------------------------
(* Values of the variables a run does not use *)

IdleText  == text = <<>> /\ ret = <<>> /\ ret2 = <<>>
IdlePairs == pairs = <<>> /\ merged = <<>>
IdleParse ==
    /\ path = <<>> /\ tree = <<>> /\ record = <<>>
    /\ row_index = 0
IdleMain  ==
    /\ fs = <<>> /\ paths = <<>> /\ pidx = 0 /\ docs = <<>>
    /\ outfile = <<>> /\ stdout = <<>>

----------------------------------------------------------------------------
(* fix_quotes_for_latex applied to a text *)

MaxQuoteLen == 4

QuoteChars == {DQ, SQ, "a", " ", "."}

\* "a" and "b", the example of the specification
QuoteExample ==
    <<DQ, "a", DQ, " ", "a", "n", "d", " ", DQ, "b", DQ>>

QuoteInputs == SeqsUpTo(QuoteChars, MaxQuoteLen) \cup {QuoteExample}

InitQuotes ==
    /\ pc = "fix_quotes"
    /\ text \in QuoteInputs
    /\ ret = <<>> /\ ret2 = <<>>
    /\ IdlePairs /\ IdleParse /\ IdleMain

FixQuotes ==
    /\ pc = "fix_quotes"
    /\ ret' = fix_quotes_for_latex(text)
    /\ pc' = "done"
    /\ UNCHANGED <<text, ret2, pairVars, parseVars, mainVars>>

NextQuotes == FixQuotes

SpecQuotes == InitQuotes /\ [][NextQuotes]_vars

\* the number of straight double quotes among the first k characters of s
DoubleQuotesUpTo(s, k) == Cardinality({j \in 1..k : s[j] = DQ})

\* s with its k-th straight double quote rendered as the opening pair when
\* k is odd and as the closing pair when k is even, nothing else changed
AlternatingQuotes(s) ==
    Join([k \in DOMAIN s |->
            IF s[k] # DQ THEN <<s[k]>>
            ELSE IF DoubleQuotesUpTo(s, k) % 2 = 1 THEN <<BQ, BQ>>
                 ELSE <<SQ, SQ>>])

\* C3: on a text that holds no single quote, fix_quotes_for_latex returns
\* the text with the k-th straight double quote rendered as two backticks
\* (k odd) or two apostrophes (k even) and every other character unchanged.
C3_QuotesAlternate ==
    (pc = "done" /\ ~(\E k \in DOMAIN text : text[k] \in {SQ, BQ}))
        => ret = AlternatingQuotes(text)

----------------------------------------------------------------------------
(* latex_escape applied to a text, and again to its result *)

MaxNormChunks == 4

NormChunks ==
    { <<"a">>, <<" ">>, <<"\n">>, <<".">>, <<NBSP>>, <<"\\">>,
      <<"&","a","m","p",";">> }

NormInputs == {Join(cs) : cs \in SeqsUpTo(NormChunks, MaxNormChunks)}

InitNormalize ==
    /\ pc = "escape"
    /\ text \in NormInputs
    /\ ret = <<>> /\ ret2 = <<>>
    /\ IdlePairs /\ IdleParse /\ IdleMain

Normalize ==
    /\ pc = "escape"
    /\ ret' = latex_escape(text)
    /\ pc' = "escape_again"
    /\ UNCHANGED <<text, ret2, pairVars, parseVars, mainVars>>

NormalizeAgain ==
    /\ pc = "escape_again"
    /\ ret2' = latex_escape(ret)
    /\ pc' = "done"
    /\ UNCHANGED <<text, ret, pairVars, parseVars, mainVars>>

NextNormalize == Normalize \/ NormalizeAgain

SpecNormalize == InitNormalize /\ [][NextNormalize]_vars

\* the characters latex_escape rewrites
Reserved == {"\\", "{", "}", "#", "$", "%", "&", "_", "^", "~"}

HasReserved(s) == \E k \in DOMAIN s : s[k] \in Reserved

\* C4 as stated: latex_escape applied twice gives what it gives applied
\* once, for every text.
C4_Idempotent == pc = "done" => ret2 = ret

\* C4 amended: latex_escape applied twice gives what it gives applied once,
\* for every text that holds none of the reserved characters.
C4_IdempotentUnreserved ==
    (pc = "done" /\ ~HasReserved(text)) => ret2 = ret

\* a text without reserved characters that the first pass changed (a
\* non-breaking space, and whitespace in front of a full stop) went through
\* both passes
C4_Witness ==
    /\ pc = "done"
    /\ ~HasReserved(text)
    /\ \E k \in DOMAIN text : text[k] = NBSP
    /\ Contains(text, <<"\n", ".">>)
    /\ ret # text
    /\ ret2 = ret

----------------------------------------------------------------------------
(* replace_response_symbols_latin / _english applied to a text *)

MaxExpandChunks == 3

LatinPhrase   == <<"D","e","o"," ","g","r","á","t","i","a","s",".">>
LatinVariant  == <<"D","é","o","\n","g","r","a","t","i","á","s",".">>
EnglishPhrase ==
    <<"T","h","a","n","k","s"," ","b","e"," ","t","o"," ","G","o","d",".">>

ExpandChunks ==
    { <<"R">>, <<"r">>, <<".">>, <<" ">>, <<"a">>, <<"R", ".">>,
      LatinPhrase, LatinVariant, EnglishPhrase }

ExpandInputs == {Join(cs) : cs \in SeqsUpTo(ExpandChunks, MaxExpandChunks)}

InitExpand ==
    /\ pc = "expand"
    /\ text \in ExpandInputs
    /\ ret = <<>> /\ ret2 = <<>>
    /\ IdlePairs /\ IdleParse /\ IdleMain

ExpandLatin ==
    /\ pc = "expand"
    /\ ret' = replace_response_symbols_latin(text)
    /\ pc' = "done_latin"
    /\ UNCHANGED <<text, ret2, pairVars, parseVars, mainVars>>

ExpandEnglish ==
    /\ pc = "expand"
    /\ ret' = replace_response_symbols_english(text)
    /\ pc' = "done_english"
    /\ UNCHANGED <<text, ret2, pairVars, parseVars, mainVars>>

NextExpand == ExpandLatin \/ ExpandEnglish

SpecExpand == InitExpand /\ [][NextExpand]_vars

\* the period of the response abbreviation that starts at s[i]: s[i] is R
\* or r at a word boundary and only whitespace separates it from the
\* period; 0 when no abbreviation starts at s[i]
AbbrevDot(s, i) ==
    IF (i = 1 \/ ~IsWordCh(s[i - 1])) /\ s[i] \in {"R", "r"}
    THEN LET dots == {d \in (i + 1)..Len(s) :
                        /\ s[d] = "."
                        /\ \A k \in (i + 1)..(d - 1) : IsSpace(s[k])}
         IN  IF dots = {} THEN 0 ELSE Min(dots)
    ELSE 0

AbbrevStarts(s) == {i \in DOMAIN s : AbbrevDot(s, i) # 0}

\* whitespace runs of w replaced by one space, accents of a and e dropped
Squeeze(w) ==
    Join([k \in DOMAIN w |->
            IF IsSpace(w[k])
            THEN (IF k > 1 /\ IsSpace(w[k - 1]) THEN <<>> ELSE <<" ">>)
            ELSE IF w[k] = "á" THEN <<"a">>
            ELSE IF w[k] = "é" THEN <<"e">>
            ELSE <<w[k]>>])

\* w spells the canonical phrase of the language
IsPhrase(lang, w) ==
    /\ w # <<>>
    /\ ~IsSpace(w[1])
    /\ IF lang = "latin"
       THEN Squeeze(w) = <<"D","e","o"," ","g","r","a","t","i","a","s",".">>
       ELSE Squeeze(w) = EnglishPhrase /\ ~(\E k \in DOMAIN w : w[k] \in {"á", "é"})

\* the first index behind the period d that holds no whitespace
AfterDot(s, d) ==
    Min({k \in (d + 1)..(Len(s) + 1) : k = Len(s) + 1 \/ ~IsSpace(s[k])})

\* the ends (exclusive) of a phrase of the language that starts right
\* there: at most one
PhraseEnds(lang, s, d) ==
    {e \in (AfterDot(s, d) + 1)..(Len(s) + 1) :
        IsPhrase(lang, SubSeq(s, AfterDot(s, d), e - 1))}

\* where the text replaced for the abbreviation at s[i] ends (exclusive)
ReplacedEnd(lang, s, i) ==
    LET d == AbbrevDot(s, i)
    IN  IF PhraseEnds(lang, s, d) = {} THEN AfterDot(s, d)
        ELSE Min(PhraseEnds(lang, s, d))

\* the expansion the claim describes: every abbreviation becomes the
\* marker and one phrase, the source's own when it follows, else a fresh one
ExpectedExpansion(lang, s) ==
    LET spans == {<<i, ReplacedEnd(lang, s, i)>> : i \in AbbrevStarts(s)}
    IN  Join([k \in DOMAIN s |->
                IF \E p \in spans : p[1] = k
                THEN LET d == AbbrevDot(s, k)
                         e == (CHOOSE p \in spans : p[1] = k)[2]
                     IN  ResponseBase
                         \o (IF PhraseEnds(lang, s, d) = {} THEN Fresh(lang)
                             ELSE SubSeq(s, AfterDot(s, d), e - 1))
                ELSE IF \E p \in spans : p[1] < k /\ k < p[2]
                     THEN <<>>
                     ELSE <<s[k]>>])

DoneLang == IF pc = "done_latin" THEN "latin" ELSE "english"

\* C5: for each language, the result is the text with every response
\* abbreviation (with the whitespace behind its period) replaced by the
\* colored marker and exactly one phrase: the phrase of the source, verbatim,
\* when it follows the abbreviation, a fresh canonical phrase when it does
\* not. "R. Deo grátias." gives the marker and the original phrase once,
\* "R." gives the marker and the fresh Latin phrase.
C5_ExpandResponse ==
    /\ pc \in {"done_latin", "done_english"}
          => ret = ExpectedExpansion(DoneLang, text)
    /\ (pc = "done_latin" /\ text = <<"R", ".", " ">> \o LatinPhrase)
          => ret = ResponseBase \o LatinPhrase
    /\ (pc = "done_latin" /\ text = <<"R", ".">>)
          => ret = ResponseBase \o FreshLatin

\* a Latin text with two abbreviations, the first followed by the phrase
\* and the second not, has been expanded
C5_Witness ==
    /\ pc = "done_latin"
    /\ text = <<"R", ".">> \o LatinVariant \o <<"R", ".">>
    /\ ret = ResponseBase \o LatinVariant \o ResponseBase \o FreshLatin

----------------------------------------------------------------------------
(* merge_response_rows applied to a list of pairs *)

MaxMergePairs == 3

RFoo == <<"R", ".", " ", "f", "o", "o">>

MergePairs ==
    { <<<<"A">>, <<"B">>>>,
      <<<<" ", "A">>, <<"B", " ">>>>,
      <<RFoo, <<>>>>,
      <<<<>>, <<"r", " ", ".", "b">>>>,
      <<RFoo \o <<" ">>, <<" ", "R", ".">>>>,
      <<<<"R", "o", "m", "a">>, <<"R">>>>,
      <<ReplacedToken, <<"C">>>>,
      <<<<>>, <<>>>> }

InitMerge ==
    /\ pc = "merge"
    /\ pairs \in SeqsUpTo(MergePairs, MaxMergePairs)
    /\ merged = <<>>
    /\ IdleText /\ IdleParse /\ IdleMain

Merge ==
    /\ pc = "merge"
    /\ merged' = merge_response_rows(pairs)
    /\ pc' = "done"
    /\ UNCHANGED <<pairs, textVars, parseVars, mainVars>>

NextMerge == Merge

SpecMerge == InitMerge /\ [][NextMerge]_vars

\* the incoming pairs that open a new output entry
Openers ==
    {j \in DOMAIN pairs :
        j = 1 \/ ~(_starts_with_response_token(pairs[j][1])
                   \/ _starts_with_response_token(pairs[j][2]))}

\* the n-th opener, and the last pair that is merged into it
Opener(n) == CHOOSE j \in Openers : Cardinality({x \in Openers : x <= j}) = n
GroupEnd(n) ==
    IF n = Cardinality(Openers) THEN Len(pairs) ELSE Opener(n + 1) - 1

\* x with the side-th sides of the pairs m..hi that start with a response
\* token appended in order, space-joined and trimmed
RECURSIVE AppendTokens(_, _, _, _)
AppendTokens(side, x, m, hi) ==
    IF m > hi THEN x
    ELSE AppendTokens(side,
                      IF _starts_with_response_token(pairs[m][side])
                      THEN Strip(x \o <<" ">> \o pairs[m][side])
                      ELSE x,
                      m + 1, hi)

\* C6: the output has one entry per incoming pair that is the first or has
\* no side starting with a response token; the entry is that pair, with each
\* side of the following response rows that starts with a token appended to
\* the same side (space-joined, trimmed) and nothing else changed.
\* [(A,B), ("R. foo", "")] gives the single pair (A + " R. foo", B).
C6_MergeRows ==
    pc = "done" =>
        /\ Len(merged) = Cardinality(Openers)
        /\ \A n \in DOMAIN merged :
              merged[n] =
                <<AppendTokens(1, pairs[Opener(n)][1], Opener(n) + 1, GroupEnd(n)),
                  AppendTokens(2, pairs[Opener(n)][2], Opener(n) + 1, GroupEnd(n))>>
        /\ pairs = << <<<<"A">>, <<"B">>>>, <<RFoo, <<>>>> >>
              => merged = << <<<<"A", " ">> \o RFoo, <<"B">>>> >>

\* a pair was followed by a row with the token on the left only and a row
\* with the token on the right only, and the three became one pair
C6_Witness ==
    /\ pc = "done"
    /\ pairs = << <<<<"A">>, <<"B">>>>, <<RFoo, <<>>>>,
                  <<<<>>, <<"r", " ", ".", "b">>>> >>
    /\ merged = << <<<<"A", " ">> \o RFoo,
                     <<"B", " ", "r", " ", ".", "b">>>> >>

----------------------------------------------------------------------------
(* emit_body_paracol_with_dropcaps applied to the pairs of a document *)

MaxBodyPairs == 3

RDeoGratias == <<"R", ".", " ">> \o LatinPhrase
RThanks     == <<"R", ".", " ">> \o EnglishPhrase

\* body pairs as parse_file returns them
BodyPairs ==
    { <<<<"A", "v", "e">>, <<"H", "a", "i", "l">>>>,
      <<<<"É", "t", " ", "a">>, <<>>>>,
      <<RDeoGratias, RThanks>>,
      <<<<"R", ".">>, <<>>>>,
      <<<<>>, <<" ", "r", ".", " ", "x">>>>,
      <<<<"1", ".">>, <<"R", "o", "m", "e">>>> }

InitBody ==
    /\ pc = "emit_body"
    /\ pairs \in SeqsUpTo(BodyPairs, MaxBodyPairs)
    /\ merged = <<>>
    /\ IdleText /\ IdleParse /\ IdleMain

\* merged is norm after the call of merge_response_rows, ret the list out
EmitBody ==
    /\ pc = "emit_body"
    /\ merged' = BodyNorm(pairs)
    /\ ret' = BodyLines(pairs)
    /\ pc' = "done"
    /\ UNCHANGED <<pairs, text, ret2, parseVars, mainVars>>

NextBody == EmitBody

SpecBody == InitBody /\ [][NextBody]_vars

\* s begins with the raw response prefix: optional whitespace, R or r,
\* optional whitespace, period
HasRawPrefix(s) ==
    \E i \in DOMAIN s, d \in DOMAIN s :
        /\ i < d
        /\ s[i] \in {"R", "r"}
        /\ s[d] = "."
        /\ \A k \in 1..(d - 1) : k # i => IsSpace(s[k])

\* C9: the detector recognizes the substituted form of every side that
\* begins with the raw response prefix, so in the body pipeline every
\* non-first pair with such a side is merged into the pair before it and the
\* rendered list has one pair per remaining row.
C9_SubstitutedRowsMerge ==
    pc = "done" =>
        /\ \A j \in DOMAIN pairs :
              /\ HasRawPrefix(pairs[j][1]) =>
                    _starts_with_response_token(
                        replace_response_symbols_latin(pairs[j][1]))
              /\ HasRawPrefix(pairs[j][2]) =>
                    _starts_with_response_token(
                        replace_response_symbols_english(pairs[j][2]))
        /\ Len(merged) =
              Cardinality({j \in DOMAIN pairs :
                  j = 1 \/ ~(HasRawPrefix(pairs[j][1])
                             \/ HasRawPrefix(pairs[j][2]))})

\* the drop-capital treatment of a side: "~" for the empty text; the text
\* itself when its first visible character is not a letter; else the first
\* letter as a two-line initial, the rest of its word in the second
\* argument, and the rest of the text behind one space
ExpectedDropCap(s) ==
    LET visible == {i \in DOMAIN s : ~IsSpace(s[i])}
    IN  IF s = <<>> THEN <<"~">>
        ELSE IF visible = {} \/ ~IsAlpha(s[Min(visible)]) THEN s
        ELSE LET i     == Min(visible)
                 gaps  == {j \in (i + 1)..Len(s) : IsSpace(s[j])}
                 j     == IF gaps = {} THEN Len(s) + 1 ELSE Min(gaps)
                 later == {m \in j..Len(s) : ~IsSpace(s[m])}
             IN  <<"\\","l","e","t","t","r","i","n","e","[","l","i","n","e",
                   "s","=","2","]","{", s[i], "}", "{">>
                 \o SubSeq(s, i + 1, j - 1) \o <<"}">>
                 \o (IF later = {} THEN <<>>
                     ELSE <<" ">> \o From(s, Min(later)))

\* the left and the right text written for the k-th pair of the body block
WrittenLeft(k)  == ret[6 * k - 3]
WrittenRight(k) == ret[6 * k]

----------------------------------------------------------------------------
(* parse_file applied to a path and a document *)

MaxRows == 2

Grid2x2 ==
    << << <<"a">>, <<"1">> >>,
       << <<"F">>, <<>> >> >>

PrefaceLatinRow   == <<Td(<<"L","u","n","a">>), Td(<<"x">>)>>
PrefaceEnglishRow ==
    <<Td(<<"y">>),
      Td(<<"D","a","y"," ","o","f"," ","t","h","e"," ","M","o","o","n">>)>>
PrefaceHalfRow    == <<Td(<<"L","u","n","a">>), Td(<<>>)>>
GridRow           == <<Cell(<<>>, FALSE, <<Grid2x2>>, FALSE)>>
BodyRow           == <<Td(<<"A">>), Td(<<"B", " ", DQ, "c", DQ>>)>>
ResponseRow       == <<Td(RDeoGratias), Td(RThanks)>>
ConclusionLatRow  ==
    <<Td(<<"E","t"," ","á","l","i","b","i"," ","R",".">>), Td(<<"z">>)>>
ConclusionEngRow  ==
    <<Td(<<>>),
      Td(<<"A","n","d"," ","e","l","s","e","w","h","e","r","e"," ","R",".">>)>>
NearConclusionRow ==
    <<Td(<<"E","t"," ","á","l","i","b","i">>),
      Td(<<"A","n","d"," ","e","l","s","e","w","h","e","r","e">>)>>
ImageRow          == <<Cell(<<>>, TRUE, <<>>, FALSE), Td(<<"&","n","b","s","p",";">>)>>
HeadingRow        == <<Cell(<<"M","a","y"," ","1">>, FALSE, <<>>, TRUE)>>

RowMenu ==
    { PrefaceLatinRow, PrefaceEnglishRow, PrefaceHalfRow, GridRow, BodyRow,
      ResponseRow, ConclusionLatRow, ConclusionEngRow, NearConclusionRow,
      ImageRow, HeadingRow }

\* the document of the end-to-end example: a preface row, a row with one
\* nested 2x2 grid, and two body rows, the second beginning "R. Deo grátias."
ExampleTable == <<PrefaceLatinRow, GridRow, BodyRow, ResponseRow>>

\* a row with a marker and an empty cell in front of a preface row and a
\* grid row
SkippedMarkerTable == <<PrefaceHalfRow, PrefaceEnglishRow, GridRow>>

\* a conclusion row between two body rows
ConclusionTable == <<BodyRow, ConclusionEngRow, ResponseRow>>

TableInputs ==
    SeqsUpTo(RowMenu, MaxRows)
    \cup {ExampleTable, SkippedMarkerTable, ConclusionTable}

\* a one-row layout table in front of the content table
DecoyTable == << <<Td(<<"n","a","v">>)>> >>

TreeInputs ==
    {[title |-> <<>>, tables |-> <<>>]}
    \cup {[title |-> <<<<"J","a","n"," ","1">>>>, tables |-> <<t>>] :
             t \in TableInputs}
    \cup {[title |-> <<>>, tables |-> <<DecoyTable, t>>] : t \in TableInputs}

ParsePaths ==
    { PathOf(1, DayFile(1, 1)), PathOf(1, DayFile(1, 2)),
      PathOf(2, DayFile(1, 1)), PathOf(2, DayFile(2, 1)) }

InitParse ==
    /\ pc = "parse"
    /\ path \in ParsePaths
    /\ tree \in TreeInputs
    /\ record = <<>> /\ row_index = 0
    /\ IdleText /\ IdlePairs /\ IdleMain

ParseFile ==
    /\ pc = "parse"
    /\ record' = parse_file(path, tree)
    /\ row_index' = IF MainTableIndex(tree) = 0 THEN 0
                    ELSE PrefaceRowIndex(MainRows(tree))
    /\ pc' = "done"
    /\ UNCHANGED <<path, tree, textVars, pairVars, mainVars>>

NextParse == ParseFile

SpecParse == InitParse /\ [][NextParse]_vars

\* the rows of the table parse_file reads: the top-level table with the
\* most rows, the first of them on a tie
ContentRows == MainRows(tree)

\* the normalized, quote-fixed text of the k-th cell of the row tr
CellNorm(tr, k) == fix_quotes_for_latex(latex_escape(CellText(tr[k])))

\* the preface markers of the claim
MarkersIn(tr) ==
    \/ Contains(CellNorm(tr, 1), <<"L","u","n","a">>)
    \/ Contains(CellNorm(tr, 1), <<"K","a","l","é","n","d","i","s">>)
    \/ Contains(CellNorm(tr, 2), <<"J","a","n","u","a","r","y">>)
    \/ Contains(CellNorm(tr, 2),
                <<"D","a","y"," ","o","f"," ","t","h","e"," ","M","o","o","n">>)

\* a preface row as C10 states it: two cells and a marker, the other cell
\* possibly empty
PrefaceAsClaimed(tr) == Len(tr) = 2 /\ MarkersIn(tr)

\* a preface row as amended: two cells, both with text, and a marker
PrefaceAmended(tr) ==
    /\ Len(tr) = 2
    /\ CellNorm(tr, 1) # <<>> /\ CellNorm(tr, 2) # <<>>
    /\ MarkersIn(tr)

\* the row behind the first k rows holds a nested table with a non-empty cell
GridBehind(rows, k) ==
    /\ k + 1 <= Len(rows)
    /\ \E c \in DOMAIN rows[k + 1] : \E g \in DOMAIN rows[k + 1][c].tables :
          GridText(rows[k + 1][c].tables[g]) # <<>>

\* what C10 says of a document whose preface rows are the rows cand
PrefaceFacts(cand) ==
    LET rows == ContentRows
        rec  == record[1]
    IN  /\ cand = {} =>
              /\ rec.preface_lat = <<>> /\ rec.preface_eng = <<>>
              /\ row_index = 0
        /\ cand # {} =>
              /\ rec.preface_lat = CellNorm(rows[Min(cand)], 1)
              /\ rec.preface_eng = CellNorm(rows[Min(cand)], 2)
              /\ row_index = Min(cand)
        /\ (rec.letter_tables # <<>>) <=>
              GridBehind(rows, IF cand = {} THEN 0 ELSE Min(cand))

\* C10 as stated: the preface row is the first row with exactly two cells
\* and a marker (left text with "Luna" or "Kaléndis", or right text with
\* "January" or "Day of the Moon"), also when its other cell is empty; its
\* cells are the preface fields, and the letter grid is looked for in the
\* row right after it, or in the first row when no row matches.
C10_PrefaceAsClaimed ==
    (pc = "done" /\ record # <<>>) =>
        PrefaceFacts({i \in DOMAIN ContentRows :
                        PrefaceAsClaimed(ContentRows[i])})

\* C10 amended: the same, the preface row being the first row with exactly
\* two cells that both hold text and a marker.
C10_PrefaceBothCells ==
    (pc = "done" /\ record # <<>>) =>
        PrefaceFacts({i \in DOMAIN ContentRows :
                        PrefaceAmended(ContentRows[i])})

\* a row with a marker and an empty cell was passed over, a later row was
\* taken as the preface, and the grid behind it was found
C10_Witness ==
    /\ pc = "done" /\ record # <<>>
    /\ ContentRows = SkippedMarkerTable
    /\ row_index = 2
    /\ record[1].preface_lat = <<"y">>
    /\ Len(record[1].letter_tables) = 1

\* the document has the shape of the end-to-end example: a preface row, a
\* row with one nested 2x2 grid, and two body rows (two cells with text, no
\* conclusion row), the second beginning "R. Deo grátias."
ExampleShape ==
    /\ record # <<>>
    /\ Len(ContentRows) = 4
    /\ PrefaceAmended(ContentRows[1])
    /\ ContentRows[2] = GridRow
    /\ \A j \in {3, 4} :
          /\ Len(ContentRows[j]) = 2
          /\ \A k \in {1, 2} :
                /\ ~ContentRows[j][k].img
                /\ ContentRows[j][k].tables = <<>>
                /\ ContentRows[j][k].txt # <<>>
          /\ ~Contains(ContentRows[j][1].txt, <<"á","l","i","b","i">>)
          /\ ~Contains(ContentRows[j][2].txt, <<"e","l","s","e","w","h","e","r","e">>)
    /\ StartsWithAt(ContentRows[4][1].txt, 1, RDeoGratias)

ExampleGridFacts ==
    /\ record[1].preface_lat # <<>>
    /\ record[1].preface_eng # <<>>
    /\ Len(record[1].letter_tables) = 1
    /\ Len(record[1].letter_tables[1]) = 2
    /\ \A r \in {1, 2} : Len(record[1].letter_tables[1][r]) = 2

\* C2 as stated: such a document gives non-empty preface fields, exactly
\* one grid of 2 rows by 2 columns, and exactly one body pair.
C2_OneMergedPair ==
    (pc = "done" /\ ExampleShape) =>
        ExampleGridFacts /\ Len(record[1].pairs) = 1

\* C2 amended: such a document gives non-empty preface fields, exactly one
\* grid of 2 rows by 2 columns, and exactly two body pairs, one per body
\* row in row order: parse_file does not merge the response row.
C2_TwoPairs ==
    (pc = "done" /\ ExampleShape) =>
        /\ ExampleGridFacts
        /\ record[1].pairs =
              << <<CellNorm(ContentRows[3], 1), CellNorm(ContentRows[3], 2)>>,
                 <<CellNorm(ContentRows[4], 1), CellNorm(ContentRows[4], 2)>> >>

\* the example document has been parsed
C2_Witness ==
    /\ pc = "done" /\ ExampleShape
    /\ ContentRows = ExampleTable
    /\ Len(record[1].pairs) = 2
    /\ record[1].pairs[2] = <<RDeoGratias, RThanks>>

\* the path of the first day of the first month
JanFirstPath == PathOf(1, DayFile(1, 1))

\* the conclusion pattern of C7
ConclusionAsClaimed(pair) ==
    \/ /\ Contains(pair[1], <<"E","t"," ","á","l","i","b","i">>)
       /\ \/ Contains(pair[1], <<"R", ".">>)
          \/ Contains(pair[1], <<"D","e","o"," ","g","r">>)
    \/ /\ StartsWithAt(pair[2], 1,
                       <<"A","n","d"," ","e","l","s","e","w","h","e","r","e">>)
       /\ \/ Contains(pair[2], <<"R", ".">>)
          \/ Contains(pair[2], <<"T","h","a","n","k","s"," ","b","e"," ",
                                 "t","o"," ","G","o","d">>)

NotConclusionAsClaimed(pair) == ~ConclusionAsClaimed(pair)

\* C7: for the path of the first day of the first month every body pair is
\* kept, the conclusion pairs with it; for every other path the pairs are
\* the body pairs that do not match the conclusion pattern, in their order.
C7_ConclusionFilter ==
    (pc = "done" /\ record # <<>>) =>
        LET bp == BodyPairsOf(ContentRows, BodyStart(ContentRows, row_index))
        IN  IF path = JanFirstPath
            THEN record[1].pairs = bp
            ELSE record[1].pairs = SelectSeq(bp, NotConclusionAsClaimed)

----------------------------------------------------------------------------
(* main run over the files of the month folders *)

MaxMonth == 2

\* the days that have a file in a folder
Days == {1, 2}

FileSlots == (1..MaxMonth) \X Days

SlotPath(slot) == PathOf(slot[1], DayFile(slot[1], slot[2]))

\* a file of a month folder that is not an .htm file
NotesPath == PathOf(1, <<"x", ".", "t", "x", "t">>)

\* the document of a file: without any table, or with the table of its day
SlotTree(slot, kind) ==
    IF kind = "no table" THEN [title |-> <<>>, tables |-> <<>>]
    ELSE [title |-> <<>>,
          tables |-> <<IF slot[2] = 1 THEN ExampleTable
                       ELSE ConclusionTable>>]

SlotOf(p) == CHOOSE slot \in FileSlots : SlotPath(slot) = p

\* the directory trees of the runs: every file is absent, without a table
\* or with one
FsInputs ==
    UNION {
        { [p \in {SlotPath(slot) : slot \in present} \cup extra |->
              IF p = NotesPath THEN SlotTree(<<1, 1>>, "table")
              ELSE SlotTree(SlotOf(p), kind[SlotOf(p)])] :
          kind \in [present -> {"no table", "table"}],
          extra \in {{}, {NotesPath}} } :
        present \in SUBSET FileSlots }

InitMain ==
    /\ pc = "discover"
    /\ fs \in FsInputs
    /\ paths = <<>> /\ pidx = 0 /\ docs = <<>>
    /\ outfile = <<>> /\ stdout = <<>>
    /\ IdleText /\ IdlePairs /\ IdleParse

\* the loop over the month folders and the sort
Discover ==
    /\ pc = "discover"
    /\ paths' = SortPaths(UNION {Glob(m) : m \in MonthFolders})
    /\ docs' = <<>>
    /\ pidx' = 1
    /\ pc' = "parse"
    /\ UNCHANGED <<fs, outfile, stdout, textVars, pairVars, parseVars>>

\* one turn of the loop over paths
ParseNext ==
    /\ pc = "parse"
    /\ pidx <= Len(paths)
    /\ docs' = docs \o parse_file(paths[pidx], fs[paths[pidx]])
    /\ pidx' = pidx + 1
    /\ UNCHANGED <<pc, fs, paths, outfile, stdout, textVars, pairVars,
                   parseVars>>

\* if not docs: print and return
ReportNone ==
    /\ pc = "parse"
    /\ pidx > Len(paths)
    /\ docs = <<>>
    /\ stdout' = Append(stdout, NoDocsMessage)
    /\ pc' = "done"
    /\ UNCHANGED <<fs, paths, pidx, docs, outfile, textVars, pairVars,
                   parseVars>>

\* write_latex(docs, "martyrology.tex") and the print behind it
WriteLatex ==
    /\ pc = "parse"
    /\ pidx > Len(paths)
    /\ docs # <<>>
    /\ outfile' = write_latex(docs)
    /\ stdout' = Append(stdout, WroteMessage(Len(docs)))
    /\ pc' = "done"
    /\ UNCHANGED <<fs, paths, pidx, docs, textVars, pairVars, parseVars>>

NextMain == Discover \/ ParseNext \/ ReportNone \/ WriteLatex

SpecMain == InitMain /\ [][NextMain]_vars

\* the .htm files of the month folders that hold a table
Yielding ==
    {p \in DOMAIN fs :
        /\ p # NotesPath
        /\ fs[p].tables # <<>>}

\* the paths of the blocks of the output file, in the order of the file
BlockPaths ==
    LET heads == SelectSeq(outfile, LAMBDA c : StartsWithAt(c, 1, BlockMark))
    IN  [k \in DOMAIN heads |->
            SubSeq(heads[k], Len(BlockMark) + 1, Len(heads[k]) - 1)]

\* C8: when main has returned, the output file was written exactly if some
\* discovered file yielded a document. With no document the diagnostic is
\* printed and the file is never opened; otherwise the file starts with the
\* preamble, ends with the closing marker and holds one block for every
\* file with a table, and for no other file, in ascending order of the
\* paths.
C8_WrittenIffDocuments ==
    pc = "done" =>
        /\ (outfile # <<>>) <=> (Yielding # {})
        /\ Yielding = {} => stdout = <<NoDocsMessage>>
        /\ Yielding # {} =>
              /\ outfile[1] = latex_header
              /\ outfile[Len(outfile)] = latex_footer
              /\ Len(BlockPaths) = Cardinality(Yielding)
              /\ {BlockPaths[k] : k \in DOMAIN BlockPaths} = Yielding
              /\ \A k \in 1..(Len(BlockPaths) - 1) :
                    LexLess(BlockPaths[k], BlockPaths[k + 1])
              /\ stdout = <<WroteMessage(Cardinality(Yielding))>>

\* a file without a table was passed over and the files behind it were
\* parsed and written
C8_Witness ==
    /\ pc = "done"
    /\ Len(paths) = 3
    /\ fs[paths[2]].tables = <<>>
    /\ Len(docs) = 2
    /\ BlockPaths = <<paths[1], paths[3]>>

\* no file yielded a document and nothing was written
C8_WitnessNone ==
    /\ pc = "done"
    /\ Len(paths) = 2
    /\ docs = <<>>
    /\ outfile = <<>>
    /\ stdout = <<NoDocsMessage>>

\* the index in the output file of the head of the block of the k-th
\* document
HeadIndex(k) ==
    CHOOSE i \in DOMAIN outfile : outfile[i] = BlockHead(docs[k].path)

\* C1: when two consecutive documents come from the folder of month 1 and
\* the folder of month 2, exactly one month-boundary directive is written
\* between their blocks: a new right-hand page and the definitions of the
\* month names Februarius and February.
C1_MonthBoundary ==
    pc = "done" =>
        \A k \in 1..(Len(docs) - 1) :
            (/\ PathHead(docs[k].path) = FolderOf(1)
             /\ PathHead(docs[k + 1].path) = FolderOf(2)) =>
                LET between == (HeadIndex(k) + 1)..(HeadIndex(k + 1) - 1)
                IN  /\ Cardinality({i \in between :
                                       outfile[i] = ClearToRecto}) = 1
                    /\ \E i \in between :
                          /\ i + 2 \in between
                          /\ outfile[i] = ClearToRecto
                          /\ outfile[i + 1] =
                                GdefLatin \o MONTHS_LA[2] \o <<"}", "\n">>
                          /\ outfile[i + 2] =
                                GdefEnglish \o MONTHS_EN[2]
                                \o <<"}", "\n", "\n">>

----------------------------------------------------------------------------
(* emit_letter_tables_compact_no_border applied to the grids of a record *)

MaxCells == 3

\* the cell texts parse_letter_tables can return: a lowercase letter, the
\* capital F, numbers, and the empty text
GridCells == { <<"a">>, <<"F">>, <<"1">>, <<"1", "2">>, <<>> }

\* the cells laid out in rows of two, the last row possibly shorter
GridOf(cells) ==
    [r \in 1..((Len(cells) + 1) \div 2) |->
        SubSeq(cells, 2 * r - 1, IF 2 * r <= Len(cells) THEN 2 * r
                                 ELSE Len(cells))]

\* a grid whose first row is shorter than its second
RaggedGrid == << <<<<"F">>>>, <<<<"1">>, <<"F">>>> >>

\* the grids with a non-empty cell in every row, as GridData keeps them
GridFamily ==
    {g \in {GridOf(cells) : cells \in SeqsUpTo(GridCells, MaxCells) \ {<<>>}} :
        \A r \in DOMAIN g : \E c \in DOMAIN g[r] : g[r][c] # <<>>}
    \cup {RaggedGrid}

\* grids in front of and behind the second one
OtherGrids ==
    { << <<<<"F">>, <<"1">>>> >>,
      << <<<<"a">>>>, <<<<"F">>, <<"F">>>> >> }

LetterTableInputs ==
    {<<>>}
    \cup {<<g>> : g \in GridFamily}
    \cup {<<o, g>> : o \in OtherGrids, g \in GridFamily}
    \cup {<<o, g, o2>> : o \in OtherGrids, g \in GridFamily, o2 \in OtherGrids}

InitGrid ==
    /\ pc = "emit_tables"
    /\ \E tabs \in LetterTableInputs :
          record = << [ path          |-> PathOf(1, DayFile(1, 1)),
                        date          |-> <<"U","n","t","i","t","l","e","d">>,
                        preface_lat   |-> <<>>,
                        preface_eng   |-> <<>>,
                        letter_tables |-> tabs,
                        pairs         |-> <<>> ] >>
    /\ path = <<>> /\ tree = <<>> /\ row_index = 0
    /\ IdleText /\ IdlePairs /\ IdleMain

EmitLetterTables ==
    /\ pc = "emit_tables"
    /\ ret' = emit_letter_tables_compact_no_border(record[1].letter_tables)
    /\ pc' = "done"
    /\ UNCHANGED <<text, ret2, pairVars, parseVars, mainVars>>

NextGrid == EmitLetterTables

SpecGrid == InitGrid /\ [][NextGrid]_vars

\* s.split(sep)
RECURSIVE Split(_, _)
Split(s, sep) ==
    LET at == {i \in DOMAIN s : StartsWithAt(s, i, sep)}
    IN  IF at = {} THEN <<s>>
        ELSE <<SubSeq(s, 1, Min(at) - 1)>>
             \o Split(From(s, Min(at) + Len(sep)), sep)

\* the lines of the rendered block that hold the cells of a row: they begin
\* with a space, every other line with a backslash
RenderedRows ==
    SelectSeq(Split(ret, <<"\n">>), LAMBDA l : l # <<>> /\ l[1] = " ")

\* the rendered cells of a row line " c1 & c2 \\"
RenderedCells(l) == Split(SubSeq(l, 2, Len(l) - 3), <<" ", "&", " ">>)

\* the number of rows of the grids in front of the grid t
RECURSIVE RowsBefore(_, _)
RowsBefore(tabs, t) ==
    IF t = 1 THEN 0 ELSE RowsBefore(tabs, t - 1) + Len(tabs[t - 1])

\* the rendering of the cell c of the row r of the grid t
RenderedCell(t, r, c) ==
    RenderedCells(
        RenderedRows[RowsBefore(record[1].letter_tables, t) + r])[c]

\* the cell c of the row r of the grid g, empty behind the end of a row
GridCell(g, r, c) == IF c <= Len(g[r]) THEN g[r][c] ELSE <<>>

\* the widest row of the grid g
GridWidth(g) == Max({Len(g[r]) : r \in DOMAIN g})

\* the cell is the first F of its grid in row-major order
IsFirstF(g, r, c) ==
    /\ GridCell(g, r, c) = <<"F">>
    /\ \A r2 \in DOMAIN g : \A c2 \in 1..GridWidth(g) :
          (r2 < r \/ (r2 = r /\ c2 < c)) => GridCell(g, r2, c2) # <<"F">>

Colored(cell) ==
    <<"\\","t","e","x","t","c","o","l","o","r","{","g","r","e","g","o","r",
      "i","o","c","o","l","o","r","}","{">> \o cell \o <<"}">>

\* C11: in the rendered grids every single-letter cell is colored, every
\* pure-digit cell is left as it is and every empty cell is empty, except
\* that in the second grid the first F in row-major order is left uncolored;
\* every later F of the second grid and every F of another grid is colored.
C11_GridColoring ==
    pc = "done" =>
        LET tabs == record[1].letter_tables
            rows == RenderedRows
        IN  /\ Len(rows) = RowsBefore(tabs, Len(tabs) + 1)
            /\ \A t \in DOMAIN tabs : \A r \in DOMAIN tabs[t] :
                  LET outs == RenderedCells(rows[RowsBefore(tabs, t) + r])
                  IN  /\ Len(outs) = GridWidth(tabs[t])
                      /\ \A c \in 1..GridWidth(tabs[t]) :
                            LET cell == GridCell(tabs[t], r, c)
                            IN  /\ cell = <<>> => outs[c] = <<>>
                                /\ (cell # <<>> /\ \A k \in DOMAIN cell :
                                                      cell[k] \in Digits)
                                      => outs[c] = cell
                                /\ (Len(cell) = 1 /\ IsAlpha(cell[1])) =>
                                      IF t = 2 /\ IsFirstF(tabs[t], r, c)
                                      THEN outs[c] = <<"F">>
                                      ELSE outs[c] = Colored(cell)

\* three grids with an F each were rendered; the second holds two F, the
\* first of them left black and the second colored
C11_Witness ==
    /\ pc = "done"
    /\ record[1].letter_tables =
          << << <<<<"F">>, <<"1">>>> >>,
             << <<<<"a">>, <<"F">>>>, <<<<"F">>>> >>,
             << <<<<"a">>>>, <<<<"F">>, <<"F">>>> >> >>
    /\ RenderedCell(2, 1, 2) = <<"F">>
    /\ RenderedCell(2, 2, 1) = Colored(<<"F">>)
    /\ RenderedCell(1, 1, 1) = Colored(<<"F">>)
    /\ RenderedCell(3, 2, 1) = Colored(<<"F">>)

====
